---- MODULE Spec2Model ----
(***************************************************************************)
(* Model of the film scanner client script (src/unnamed/part_001, the most *)
(* complete revision of js/script.js): the IndexedDB asset store, the      *)
(* folder list derived from it, capture and upload ingestion, the          *)
(* delegated conversion batch, delete-all and the three views.             *)
(*                                                                         *)
(* The script is single threaded: every handler and every callback runs to *)
(* completion, so each is one action.  What is asynchronous is in state:   *)
(* the IndexedDB open request, the queue of IndexedDB transactions on the  *)
(* "images" object store, FileReader reads, canvas.toBlob encodes,         *)
(* getUserMedia requests and the fetch of a running batch.                 *)
(***************************************************************************)
EXTENDS Integers, Sequences, FiniteSets, TLC

VARIABLES
    revision,      \* which revision of the script is loaded: Local (js/script.js) or Delegated (part_001)
    imagesDB,      \* let imagesDB: NULL until request.onsuccess stores the handle
    openPending,   \* the indexedDB.open request of initIndexedDB is still in flight
    store,         \* records of the "images" object store, in key (insertion) order
    keyGen,        \* the autoIncrement key generator of the object store
    txq,           \* IndexedDB transactions created and not yet finished, oldest first
    activeFolder,  \* let activeFolder
    view,          \* which of folderView / folderContentsView / scanningView is displayed
    folderList,    \* the <li> entries of folderList, each with the images its click closure holds
    folderImages,  \* the <img> elements of folderImages (the stored images they show)
    reads,         \* files handed to a FileReader whose onload/onerror has not fired
    encodes,       \* canvas.toBlob calls whose callback has not run, oldest first
    mediaDevices,  \* whether navigator.mediaDevices is defined (it is not in an insecure context)
    gumPending,    \* getUserMedia calls of startCamera not yet settled
    srcObject,     \* camera.srcObject: NoStream, or the stream last assigned (no code stops a stream)
    videoWidth,    \* camera.videoWidth: 0 until the element has the metadata of its stream
    logs,          \* the "logs" object store: whether the database has it, and the reads of exportLogs in flight
    touch,         \* the touchstart listeners setupTapToFocus has put on camera, and their autofocus requests in flight
    batches,       \* one entry per processBtn click that passed the activeFolder guard
    issued,        \* history (model only): the folder active when each pending read or encode was asked
                   \* for, and whether a put has been committed since the latest delete-all
    failures,      \* store requests that have failed so far (model only)
    imageData,     \* processImage: the pixels of the image being converted, and how far the conversion is
    out            \* what the latest step showed or logged: alerts, console.error, uncaught errors

vars == <<revision, imagesDB, openPending, store, keyGen, txq, activeFolder, view, folderList,
          folderImages, reads, encodes, mediaDevices, gumPending, srcObject, videoWidth, touch,
          logs, batches, issued, failures, imageData, out>>

----------------------------------------------------------------------------
(* Bounds of the model and the inputs the environment may supply. *)

MaxPuts == 2        \* records the key generator hands out in one session
MaxTx == 2          \* transactions queued at once
MaxAsync == 1       \* reads, encodes and getUserMedia calls in flight at once, each
MaxBatches == 1     \* processBtn clicks that reach the store in one session
MaxFailures == 1    \* requests the store fails in one session
MaxListeners == 1   \* times the camera is started (each start adds a touchstart listener)

\* The two revisions of the script among the sources: js/script.js converts locally on
\* the canvas; the later one delegates conversion to the service and adds delete-all.
Local == "js/script.js"
Delegated == "part_001"

NULL == "null"
DB == "FilmScannerDB"
NoStream == "none"
Stream == "stream"

\* width: { ideal: 1280 }, what the stream delivers
FrameWidth == 1280

\* JavaScript null where a Blob is expected (canvas.toBlob on an empty canvas).
NullBlob == [null |-> TRUE]
MkBlob(data, type) == [data |-> data, type |-> type]
\* image.blob instanceof Blob
IsBlob(b) == "type" \in DOMAIN b

\* What the user can type into prompt(); "" stands for an empty or cancelled prompt.
FolderNames == {"A", "B"}
PromptInputs == FolderNames \cup {""}

\* Files the user can pick in the file input; NoFile is event.target.files[0] undefined.
NoFile == [name |-> "", data |-> "", type |-> ""]
Files == {[name |-> "frame1.png", data |-> "neg1", type |-> "image/png"]}

\* Values Date.now() can return (the wall clock is not monotonic).
Times == {1}

\* The frame the canvas encodes, and the body the conversion service answers with.
FrameBlob == MkBlob("frame", "image/png")
ServiceBlob(b) == MkBlob("positive", "image/jpeg")

\* Records left in the object store by an earlier session; their keys are 1..PriorKeys.
PriorStore == <<[id |-> 1, name |-> "old.png", blob |-> MkBlob("old", "image/png"), folder |-> "A"]>>
PriorKeys == Len(PriorStore)

----------------------------------------------------------------------------
(* Output of a step. *)

Alert(msg) == "alert: " \o msg
Error(msg) == "console.error: " \o msg
Uncaught(msg) == "uncaught: " \o msg
Confirm(msg) == "confirm: " \o msg

----------------------------------------------------------------------------
(* Folder index: the reduce of retrieveFromIndexedDB and the two renderers. *)

\* images.filter(image => image.folder === f)
RECURSIVE InFolder(_, _)
InFolder(images, f) ==
    IF images = <<>> THEN <<>>
    ELSE IF Head(images).folder = f
         THEN <<Head(images)>> \o InFolder(Tail(images), f)
         ELSE InFolder(Tail(images), f)

\* The keys of folderMap in the order the reduce creates them: first appearance.
RECURSIVE CreatedKeys(_, _)
CreatedKeys(images, seen) ==
    IF images = <<>> THEN <<>>
    ELSE IF Head(images).folder \in seen
         THEN CreatedKeys(Tail(images), seen)
         ELSE <<Head(images).folder>> \o CreatedKeys(Tail(images), seen \cup {Head(images).folder})

\* Property names that are array indices: the canonical decimal form of an integer
\* from 0 to 2^32 - 2 ("1", "10", "2024"; not "01", not "-1", not "1.5").
DigitChars == {"0", "1", "2", "3", "4", "5", "6", "7", "8", "9"}
DigitOf(c) == CHOOSE d \in 0..9: ToString(d) = c
MaxArrayIndex == "4294967294"

RECURSIVE IsDigits(_)
IsDigits(str) ==
    IF str = "" THEN TRUE ELSE Head(str) \in DigitChars /\ IsDigits(Tail(str))

\* Numeric order of two strings of digits of the same length.
RECURSIVE DigitsLess(_, _)
DigitsLess(a, b) ==
    IF a = "" THEN FALSE
    ELSE IF Head(a) = Head(b) THEN DigitsLess(Tail(a), Tail(b))
    ELSE DigitOf(Head(a)) < DigitOf(Head(b))

\* Numeric order of two canonical integers.
IndexLess(a, b) == Len(a) < Len(b) \/ (Len(a) = Len(b) /\ DigitsLess(a, b))

IsIndexKey(key) ==
    /\ key # "" /\ IsDigits(key)
    /\ (Len(key) = 1 \/ Head(key) # "0")
    /\ (\/ Len(key) < Len(MaxArrayIndex)
        \/ (Len(key) = Len(MaxArrayIndex) /\ ~IndexLess(MaxArrayIndex, key)))

NotIndexKey(key) == ~IsIndexKey(key)

\* The index keys of a set, in ascending numeric order.
RECURSIVE IndexKeysAscending(_)
IndexKeysAscending(keys) ==
    IF keys = {} THEN <<>>
    ELSE LET least == CHOOSE k \in keys: \A j \in keys \ {k}: IndexLess(k, j)
         IN  <<least>> \o IndexKeysAscending(keys \ {least})

\* The keys of folderMap in the order Object.entries lists them: index keys first,
\* in ascending numeric order, then the other keys in order of creation.
FolderKeys(images, seen) ==
    LET created == CreatedKeys(images, seen)
        keys == {created[i] : i \in DOMAIN created}
    IN  IndexKeysAscending({k \in keys: IsIndexKey(k)}) \o SelectSeq(created, NotIndexKey)

\* The map of the reduce is a plain object ({}): under these names it already has a
\* value, inherited from Object.prototype, that is truthy and is no array.
Inherited ==
    {"constructor", "toString", "toLocaleString", "valueOf", "hasOwnProperty", "isPrototypeOf",
     "propertyIsEnumerable", "__proto__", "__defineGetter__", "__defineSetter__",
     "__lookupGetter__", "__lookupSetter__"}

\* map[image.folder].push(image) is reached with a value that has no push
ReduceThrows(images) == \E i \in DOMAIN images: images[i].folder \in Inherited

\* Object.entries(folderMap) for folderMap = images.reduce(...)
FolderEntries(images) ==
    LET keys == FolderKeys(images, {})
    IN  [i \in 1..Len(keys) |-> [folderName |-> keys[i], images |-> InFolder(images, keys[i])]]

\* folderMap[activeFolder] || []
FolderMapAt(images, f) == InFolder(images, f)

\* Faulty variant: the list is not emptied first (folderList.innerHTML = '' left out).
updateFolderListKeeping(folders) == folderList \o folders

\* updateFolderList(folders): the list is rebuilt from the entries handed in.
updateFolderList(folders) == folders

\* displayFolderContents(images): one <img> per image whose blob is a Blob.
RECURSIVE displayFolderContents(_)
displayFolderContents(images) ==
    IF images = <<>> THEN <<>>
    ELSE IF IsBlob(Head(images).blob)
         THEN <<Head(images)>> \o displayFolderContents(Tail(images))
         ELSE displayFolderContents(Tail(images))

\* displayFolderContents(images): one console.error per image whose blob is no Blob.
RECURSIVE displayFolderContentsLog(_)
displayFolderContentsLog(images) ==
    IF images = <<>> THEN <<>>
    ELSE (IF IsBlob(Head(images).blob) THEN <<>>
          ELSE <<Error("Invalid blob detected. Skipping image")>>)
         \o displayFolderContentsLog(Tail(images))

----------------------------------------------------------------------------
(* Store functions: each returns the transaction queue it leaves behind. *)

ClearTx(cb) == [op |-> "clear", cb |-> cb]
GetAllTx(cb, for) == [op |-> "getAll", cb |-> cb, for |-> for]
AddTx(blob, fileName, folderName, by) ==
    [op |-> "add", rec |-> [name |-> fileName, blob |-> blob, folder |-> folderName], by |-> by]

\* clearIndexedDB(), given the handle it reads
clearIndexedDB(db, q) ==
    IF db = NULL THEN q ELSE Append(q, ClearTx("clearIndexedDB"))
clearIndexedDBLog(db) ==
    IF db = NULL THEN <<Error("Cannot clear: IndexedDB is not initialized.")>> ELSE <<>>

\* Faulty variant: no check of the handle, the write is queued whatever its state.
saveToIndexedDBUnguarded(q, imageBlob, fileName, folderName, by) ==
    Append(q, AddTx(imageBlob, fileName, folderName, by))

\* saveToIndexedDB(imageBlob, fileName, folderName); by names the caller (model only)
saveToIndexedDB(q, imageBlob, fileName, folderName, by) ==
    IF imagesDB = NULL THEN q ELSE Append(q, AddTx(imageBlob, fileName, folderName, by))
saveToIndexedDBLog ==
    IF imagesDB = NULL THEN <<Error("Cannot save: IndexedDB is not initialized.")>> ELSE <<>>

\* retrieveFromIndexedDB(); caller names the call site (model only)
retrieveFromIndexedDB(q, caller) ==
    IF imagesDB = NULL THEN q ELSE Append(q, GetAllTx("retrieve", caller))
retrieveFromIndexedDBLog ==
    IF imagesDB = NULL THEN <<Error("Cannot retrieve images: IndexedDB is not initialized.")>> ELSE <<>>

\* Room for n more transactions (bound of the model).
Room(n) == Len(txq) + n <= MaxTx

\* Room for one more put: the session hands out at most MaxPuts keys (bound of the model).
IsAdd(t) == t.op = "add"
CanPut == Room(1) /\ (keyGen - PriorKeys - 1) + Len(SelectSeq(txq, IsAdd)) < MaxPuts

\* No read and no encode is pending, no put has been committed.
NoneIssued == [reads |-> {}, encodes |-> <<>>, putSinceDelete |-> FALSE]

\* camera has no touchstart listener yet.
\* The database has a "logs" store and exportLogs has no read of it in flight.
NoLogs == [exists |-> TRUE, reads |-> 0]

NoTouch == [listeners |-> 0, focusing |-> <<>>]

\* No getImageData result is held: processImage is not between its read and its write.
NoImageData == [orig |-> <<>>, data |-> <<>>, passes |-> 0, stage |-> "none"]

----------------------------------------------------------------------------
InitIn(rev, contexts, databases) ==
    /\ revision = rev
    /\ mediaDevices \in contexts
    /\ logs \in {[NoLogs EXCEPT !.exists = e] : e \in databases}
    /\ imagesDB = NULL
    /\ openPending = TRUE
    /\ store \in {<<>>, PriorStore}
    /\ keyGen = PriorKeys + 1
    /\ txq = <<>>
    /\ activeFolder = ""
    /\ view = "Menu"
    /\ folderList = <<>>
    /\ folderImages = <<>>
    /\ reads = {}
    /\ encodes = <<>>
    /\ gumPending = 0
    /\ srcObject = NoStream
    /\ videoWidth = 0
    /\ touch = NoTouch
    /\ batches = <<>>
    /\ issued = NoneIssued
    /\ failures = 0
    /\ imageData = NoImageData
    /\ out = <<>>

\* The page is loaded in a secure context (navigator.mediaDevices is defined), over a
\* database that this revision of the script has made: onupgradeneeded of the later
\* revision makes the "logs" store, that of js/script.js does not.
InitOf(rev) == InitIn(rev, {TRUE}, {rev = Delegated})

\* The page is loaded in a secure context or in an insecure one.
InitAnywhere == InitIn(Delegated, BOOLEAN, {TRUE})

\* The same, the database being one the later revision has made or one that
\* js/script.js made in an earlier session (same name and version, so it is not upgraded).
InitAnyDatabase == InitIn(Delegated, BOOLEAN, BOOLEAN)

Init == InitOf(Delegated)

\* initIndexedDB: request.onsuccess
InitSuccess ==
    /\ openPending
    /\ openPending' = FALSE
    /\ imagesDB' = DB
    /\ txq' = clearIndexedDB(DB, txq)
    /\ out' = clearIndexedDBLog(DB)
    /\ UNCHANGED <<logs, issued, imageData, touch, revision, failures, store, keyGen, activeFolder, view, folderList, folderImages, reads,
                   encodes, mediaDevices, gumPending, srcObject, videoWidth, batches>>

\* initIndexedDB: request.onerror
InitError ==
    /\ openPending
    /\ openPending' = FALSE
    /\ out' = <<Error("IndexedDB initialization failed")>>
    /\ UNCHANGED <<logs, issued, imageData, touch, revision, failures, imagesDB, store, keyGen, txq, activeFolder, view, folderList,
                   folderImages, reads, encodes, mediaDevices, gumPending, srcObject, videoWidth, batches>>

----------------------------------------------------------------------------
(* IndexedDB finishes the oldest transaction and runs the handler attached. *)
(* Transactions on the one object store take effect in creation order.      *)

\* clearIndexedDB: clearRequest.onsuccess
ClearSuccess ==
    /\ txq # <<>>
    /\ Head(txq).op = "clear" /\ Head(txq).cb = "clearIndexedDB"
    /\ store' = <<>>
    /\ folderList' = updateFolderList(<<>>)
    /\ txq' = Tail(txq)
    /\ out' = <<>>
    /\ UNCHANGED <<logs, issued, imageData, touch, revision, failures, imagesDB, openPending, keyGen, activeFolder, view, folderImages, reads,
                   encodes, mediaDevices, gumPending, srcObject, videoWidth, batches>>

\* clearIndexedDB: clearRequest.onerror.  The request failed and its transaction is
\* aborted: the records stay, the list is not touched.
ClearError ==
    /\ txq # <<>>
    /\ failures < MaxFailures
    /\ failures' = failures + 1
    /\ Head(txq).op = "clear" /\ Head(txq).cb = "clearIndexedDB"
    /\ txq' = Tail(txq)
    /\ out' = <<Error(IF revision = Delegated
                      THEN "Error clearing IndexedDB \"images\" object store"
                      ELSE "Error clearing IndexedDB")>>
    /\ UNCHANGED <<logs, issued, imageData, touch, revision, imagesDB, openPending, store, keyGen, activeFolder, view, folderList,
                   folderImages, reads, encodes, mediaDevices, gumPending, srcObject, videoWidth, batches>>

\* deleteAllBtn: clearRequest.onerror
DeleteAllError ==
    /\ txq # <<>>
    /\ failures < MaxFailures
    /\ failures' = failures + 1
    /\ Head(txq).op = "clear" /\ Head(txq).cb = "deleteAll"
    /\ txq' = Tail(txq)
    /\ out' = <<Error("Error clearing IndexedDB"), Alert("Failed to delete files. Please try again.")>>
    /\ UNCHANGED <<logs, issued, imageData, touch, revision, imagesDB, openPending, store, keyGen, activeFolder, view, folderList,
                   folderImages, reads, encodes, mediaDevices, gumPending, srcObject, videoWidth, batches>>

\* Faulty variant: a clear of an already empty store is reported as an error.
DeleteAllSuccessOnce ==
    /\ txq # <<>>
    /\ Head(txq).op = "clear" /\ Head(txq).cb = "deleteAll"
    /\ store' = <<>>
    /\ txq' = retrieveFromIndexedDB(Tail(txq), "deleteAll")
    /\ issued' = [issued EXCEPT !.putSinceDelete = FALSE]
    /\ out' = IF store = <<>>
              THEN <<Error("Error clearing IndexedDB"), Alert("Failed to delete files. Please try again.")>>
              ELSE <<Alert("All files have been deleted.")>> \o retrieveFromIndexedDBLog
    /\ UNCHANGED <<logs, imageData, touch, revision, failures, imagesDB, openPending, keyGen, activeFolder, view, folderList,
                   folderImages, reads, encodes, mediaDevices, gumPending, srcObject, videoWidth, batches>>

\* Faulty variant: the clear also resets the key generator.
DeleteAllSuccessResetsKeys ==
    /\ txq # <<>>
    /\ Head(txq).op = "clear" /\ Head(txq).cb = "deleteAll"
    /\ store' = <<>>
    /\ keyGen' = 1
    /\ txq' = retrieveFromIndexedDB(Tail(txq), "deleteAll")
    /\ issued' = [issued EXCEPT !.putSinceDelete = FALSE]
    /\ out' = <<Alert("All files have been deleted.")>> \o retrieveFromIndexedDBLog
    /\ UNCHANGED <<logs, imageData, touch, revision, failures, imagesDB, openPending, activeFolder, view, folderList,
                   folderImages, reads, encodes, mediaDevices, gumPending, srcObject, videoWidth, batches>>

\* deleteAllBtn: clearRequest.onsuccess
DeleteAllSuccess ==
    /\ txq # <<>>
    /\ Head(txq).op = "clear" /\ Head(txq).cb = "deleteAll"
    /\ store' = <<>>
    /\ txq' = retrieveFromIndexedDB(Tail(txq), "deleteAll")
    /\ issued' = [issued EXCEPT !.putSinceDelete = FALSE]
    /\ out' = <<Alert("All files have been deleted.")>> \o retrieveFromIndexedDBLog
    /\ UNCHANGED <<logs, imageData, touch, revision, failures, imagesDB, openPending, keyGen, activeFolder, view, folderList,
                   folderImages, reads, encodes, mediaDevices, gumPending, srcObject, videoWidth, batches>>

\* The record store.add leaves in the object store: the key generator fills keyPath 'id'.
Stored(rec, key) ==
    [id |-> key, name |-> rec.name, blob |-> rec.blob, folder |-> rec.folder]

\* Faulty variant: the write replaces the newest record (a put under its key)
\* instead of adding one.
AddedOverLast(records, rec, key) ==
    IF records = <<>> THEN <<Stored(rec, key)>>
    ELSE [records EXCEPT ![Len(records)] = Stored(rec, key)]

\* store.add(...): the object store after the add
Added(records, rec, key) == Append(records, Stored(rec, key))

\* A batch counts the records of its own that were committed (model only).
Committed(bs, by) ==
    IF by \in DOMAIN bs THEN [bs EXCEPT ![by].saved = @ + 1] ELSE bs

\* saveToIndexedDB: store.add takes effect, then transaction.oncomplete
AddComplete ==
    /\ txq # <<>>
    /\ Head(txq).op = "add"
    /\ store' = Added(store, Head(txq).rec, keyGen)
    /\ keyGen' = keyGen + 1
    /\ batches' = Committed(batches, Head(txq).by)
    /\ txq' = retrieveFromIndexedDB(Tail(txq), "save")
    /\ issued' = [issued EXCEPT !.putSinceDelete = TRUE]
    /\ out' = retrieveFromIndexedDBLog
    /\ UNCHANGED <<logs, imageData, touch, revision, failures, imagesDB, openPending, activeFolder, view, folderList, folderImages,
                   reads, encodes, mediaDevices, gumPending, srcObject, videoWidth>>

\* saveToIndexedDB: transaction.onerror.  The transaction is aborted: no record is
\* added, the key generator keeps its value, the list is not refreshed.
AddError ==
    /\ txq # <<>>
    /\ failures < MaxFailures
    /\ failures' = failures + 1
    /\ Head(txq).op = "add"
    /\ txq' = Tail(txq)
    /\ out' = <<Error("Error saving to IndexedDB"), Alert("Failed to save image. Please try again.")>>
    /\ UNCHANGED <<logs, issued, imageData, touch, revision, imagesDB, openPending, store, keyGen, activeFolder, view, folderList,
                   folderImages, reads, encodes, mediaDevices, gumPending, srcObject, videoWidth, batches>>

\* retrieveFromIndexedDB: request.onerror
RetrieveError ==
    /\ txq # <<>>
    /\ failures < MaxFailures
    /\ failures' = failures + 1
    /\ Head(txq).op = "getAll" /\ Head(txq).cb = "retrieve"
    /\ txq' = Tail(txq)
    /\ out' = <<Error("Error retrieving from IndexedDB")>>
    /\ UNCHANGED <<logs, issued, imageData, touch, revision, imagesDB, openPending, store, keyGen, activeFolder, view, folderList,
                   folderImages, reads, encodes, mediaDevices, gumPending, srcObject, videoWidth, batches>>

\* retrieveFromIndexedDB: request.onsuccess.  The reduce throws on a record whose
\* folder names an inherited property of the map; `folderMap[activeFolder] || []`
\* is no array when activeFolder names one, and displayFolderContents throws on it
\* after the list has been rebuilt.
RetrieveSuccess ==
    /\ txq # <<>>
    /\ Head(txq).op = "getAll" /\ Head(txq).cb = "retrieve"
    /\ IF ReduceThrows(store)
       THEN /\ out' = <<Uncaught("TypeError: map[image.folder].push is not a function")>>
            /\ UNCHANGED <<folderList, folderImages>>
       ELSE /\ folderList' = updateFolderList(FolderEntries(store))
            /\ IF activeFolder \in Inherited
               THEN \* folderImages.innerHTML = '' has run when images.forEach throws
                    /\ out' = <<Uncaught("TypeError: images.forEach is not a function")>>
                    /\ folderImages' = <<>>
               ELSE /\ out' = IF activeFolder # ""
                              THEN displayFolderContentsLog(FolderMapAt(store, activeFolder))
                              ELSE <<>>
                    /\ folderImages' = IF activeFolder # ""
                                       THEN displayFolderContents(FolderMapAt(store, activeFolder))
                                       ELSE folderImages
    /\ txq' = Tail(txq)
    /\ UNCHANGED <<logs, issued, imageData, touch, revision, failures, imagesDB, openPending, store, keyGen, activeFolder, view, reads,
                   encodes, mediaDevices, gumPending, srcObject, videoWidth, batches>>

----------------------------------------------------------------------------
(* Upload: the change handler of imageUploadInput and its FileReader. *)

\* imageUploadInput 'change'
UploadChange(file) ==
    /\ IF file = NoFile
       THEN /\ out' = <<Alert("No file selected. Please choose an image.")>>
            /\ reads' = reads
            /\ issued' = issued
       ELSE /\ file \notin reads
            /\ Cardinality(reads) < MaxAsync
            /\ reads' = reads \cup {file}
            /\ issued' = [issued EXCEPT !.reads = @ \cup {<<file, activeFolder>>}]
            /\ out' = <<>>
    /\ UNCHANGED <<logs, imageData, touch, revision, failures, imagesDB, openPending, store, keyGen, txq, activeFolder, view, folderList,
                   folderImages, encodes, mediaDevices, gumPending, srcObject, videoWidth, batches>>

\* alert(`Image uploaded successfully: ${fileName}`): only the later revision has it
UploadedAlert(fileName) ==
    IF revision = Delegated THEN <<Alert("Image uploaded successfully: " \o fileName)>> ELSE <<>>

\* const fileName = file.name
UploadName(file) == file.name

\* reader.onload
ReaderLoad(file) ==
    /\ file \in reads
    /\ CanPut
    /\ reads' = reads \ {file}
    /\ issued' = [issued EXCEPT !.reads = {p \in @: p[1] # file}]
    /\ txq' = saveToIndexedDB(txq, MkBlob(file.data, file.type), UploadName(file), activeFolder, 0)
    /\ out' = saveToIndexedDBLog \o UploadedAlert(UploadName(file))
    /\ UNCHANGED <<logs, imageData, touch, revision, failures, imagesDB, openPending, store, keyGen, activeFolder, view, folderList,
                   folderImages, encodes, mediaDevices, gumPending, srcObject, videoWidth, batches>>

\* reader.onerror
ReaderError(file) ==
    /\ file \in reads
    /\ reads' = reads \ {file}
    /\ issued' = [issued EXCEPT !.reads = {p \in @: p[1] # file}]
    /\ out' = <<Error("Error reading file"), Alert("Failed to read file. Please try again.")>>
    /\ UNCHANGED <<logs, imageData, touch, revision, failures, imagesDB, openPending, store, keyGen, txq, activeFolder, view, folderList,
                   folderImages, encodes, mediaDevices, gumPending, srcObject, videoWidth, batches>>

----------------------------------------------------------------------------
(* Delete all. *)

AreYouSure == Confirm("Are you sure you want to delete all files? This action cannot be undone.")

\* Faulty variant: the answer to confirm() is ignored.
DeclinedIgnored(confirmed) == FALSE

\* if (!confirmed) return
Declined(confirmed) == ~confirmed

\* deleteAllBtn 'click'; confirmed is what confirm() returns
DeleteAllClick(confirmed) ==
    /\ revision = Delegated
    /\ (~Declined(confirmed) /\ imagesDB # NULL) => Room(1)
    /\ IF Declined(confirmed)
       THEN /\ txq' = txq
            /\ out' = <<AreYouSure>>
       ELSE IF imagesDB = NULL
       THEN /\ txq' = txq
            /\ out' = <<AreYouSure,
                        Error("Cannot delete files: IndexedDB is not initialized."),
                        Alert("An error occurred. Please try again.")>>
       ELSE /\ txq' = Append(txq, ClearTx("deleteAll"))
            /\ out' = <<AreYouSure>>
    /\ UNCHANGED <<logs, issued, imageData, touch, revision, failures, imagesDB, openPending, store, keyGen, activeFolder, view, folderList,
                   folderImages, reads, encodes, mediaDevices, gumPending, srcObject, videoWidth, batches>>

----------------------------------------------------------------------------
(* Export.  The script looks the download-all button up and attaches no      *)
(* listener to it, in either revision: a click runs no code of the script.  *)

\* downloadAllBtn 'click'
DownloadAllClick ==
    /\ out' = <<>>
    /\ UNCHANGED <<logs, issued, imageData, touch, revision, failures, imagesDB, openPending, store, keyGen, txq, activeFolder, view, folderList,
                   folderImages, reads, encodes, mediaDevices, gumPending, srcObject, videoWidth, batches>>

\* export-logs-btn 'click': exportLogs up to store.getAll().  The transaction is on
\* the "logs" store alone, so it does not queue behind those on "images".
ExportLogsClick ==
    /\ revision = Delegated
    /\ IF imagesDB = NULL
       THEN \* console.warn, return
            /\ out' = <<>>
            /\ logs' = logs
       ELSE IF ~logs.exists
       THEN \* imagesDB.transaction('logs', ...) throws, nothing catches it
            /\ out' = <<Uncaught("NotFoundError: Failed to execute 'transaction' on 'IDBDatabase': One of the specified object stores was not found.")>>
            /\ logs' = logs
       ELSE /\ logs.reads < MaxAsync
            /\ logs' = [logs EXCEPT !.reads = @ + 1]
            /\ out' = <<>>
    /\ UNCHANGED <<issued, imageData, touch, revision, failures, imagesDB, openPending, store, keyGen, txq, activeFolder, view, folderList,
                   folderImages, reads, encodes, mediaDevices, gumPending, srcObject, videoWidth, batches>>

\* exportLogs: request.onsuccess (saveLogsToFile is commented out: nothing is done with the logs)
ExportLogsSuccess ==
    /\ logs.reads > 0
    /\ logs' = [logs EXCEPT !.reads = @ - 1]
    /\ out' = <<>>
    /\ UNCHANGED <<issued, imageData, touch, revision, failures, imagesDB, openPending, store, keyGen, txq, activeFolder, view, folderList,
                   folderImages, reads, encodes, mediaDevices, gumPending, srcObject, videoWidth, batches>>

\* exportLogs: request.onerror
ExportLogsError ==
    /\ logs.reads > 0
    /\ failures < MaxFailures
    /\ failures' = failures + 1
    /\ logs' = [logs EXCEPT !.reads = @ - 1]
    /\ out' = <<Error("Failed to retrieve logs:")>>
    /\ UNCHANGED <<issued, imageData, touch, revision, imagesDB, openPending, store, keyGen, txq, activeFolder, view, folderList,
                   folderImages, reads, encodes, mediaDevices, gumPending, srcObject, videoWidth, batches>>

----------------------------------------------------------------------------
(* Views.  index.html is not among the sources: the buttons that move       *)
(* between views are taken to be clickable in the view they leave, as the   *)
(* state machine of the specification has them.                             *)

\* Faulty variant: the name typed is not tested, an empty one selects a folder too.
ScanBtnClickAnyName(folderName) ==
    /\ view = "Menu"
    /\ Room(1)
    /\ activeFolder' = folderName
    /\ view' = "FolderContents"
    /\ txq' = retrieveFromIndexedDB(txq, "scanBtn")
    /\ out' = retrieveFromIndexedDBLog
    /\ UNCHANGED <<logs, issued, imageData, touch, revision, failures, imagesDB, openPending, store, keyGen, folderList, folderImages, reads,
                   encodes, mediaDevices, gumPending, srcObject, videoWidth, batches>>

\* scanBtn 'click'; folderName is what prompt() returns
ScanBtnClick(folderName) ==
    /\ view = "Menu"
    /\ IF folderName # ""
       THEN /\ Room(1)
            /\ activeFolder' = folderName
            /\ view' = "FolderContents"
            /\ txq' = retrieveFromIndexedDB(txq, "scanBtn")
            /\ out' = retrieveFromIndexedDBLog
       ELSE /\ out' = <<Alert("No folder name entered. Please try again.")>>
            /\ UNCHANGED <<activeFolder, view, txq>>
    /\ UNCHANGED <<logs, issued, imageData, touch, revision, failures, imagesDB, openPending, store, keyGen, folderList, folderImages, reads,
                   encodes, mediaDevices, gumPending, srcObject, videoWidth, batches>>

\* updateFolderList: the 'click' listener of the i-th list item
FolderItemClick(i) ==
    /\ view = "Menu"
    /\ i \in DOMAIN folderList
    /\ activeFolder' = folderList[i].folderName
    /\ view' = "FolderContents"
    /\ folderImages' = displayFolderContents(folderList[i].images)
    /\ out' = displayFolderContentsLog(folderList[i].images)
    /\ UNCHANGED <<logs, issued, imageData, touch, revision, failures, imagesDB, openPending, store, keyGen, txq, folderList, reads, encodes,
                   mediaDevices, gumPending, srcObject, videoWidth, batches>>

\* backToMenuBtnContents 'click'
BackContentsClick ==
    /\ view = "FolderContents"
    /\ Room(1)
    /\ view' = "Menu"
    /\ txq' = retrieveFromIndexedDB(txq, "back")
    /\ out' = retrieveFromIndexedDBLog
    /\ UNCHANGED <<logs, issued, imageData, touch, revision, failures, imagesDB, openPending, store, keyGen, activeFolder, folderList,
                   folderImages, reads, encodes, mediaDevices, gumPending, srcObject, videoWidth, batches>>

\* backToMenuBtnScan 'click'
BackScanClick ==
    /\ view = "Scanning"
    /\ Room(1)
    /\ view' = "Menu"
    /\ txq' = retrieveFromIndexedDB(txq, "back")
    /\ out' = retrieveFromIndexedDBLog
    /\ UNCHANGED <<logs, issued, imageData, touch, revision, failures, imagesDB, openPending, store, keyGen, activeFolder, folderList,
                   folderImages, reads, encodes, mediaDevices, gumPending, srcObject, videoWidth, batches>>

\* startScanBtn 'click': startCamera() runs up to its await of getUserMedia; where
\* navigator.mediaDevices is undefined the call throws inside the try and the
\* catch block runs in the click itself
StartScanClick ==
    /\ view = "FolderContents"
    /\ view' = "Scanning"
    /\ IF mediaDevices
       THEN /\ gumPending < MaxAsync
            /\ gumPending' = gumPending + 1
            /\ out' = <<>>
       ELSE /\ gumPending' = gumPending
            /\ out' = <<Error("Error starting camera"), Alert("Failed to access the camera.")>>
    /\ UNCHANGED <<logs, issued, imageData, touch, revision, failures, imagesDB, openPending, store, keyGen, txq, activeFolder, folderList,
                   folderImages, reads, encodes, mediaDevices, srcObject, videoWidth, batches>>

\* startCamera: getUserMedia resolved, camera.srcObject = stream, and
\* setupTapToFocus(camera) puts one more touchstart listener on the element
CameraStarted ==
    /\ gumPending > 0
    /\ touch.listeners < MaxListeners
    /\ gumPending' = gumPending - 1
    /\ srcObject' = Stream
    /\ videoWidth' = 0
    /\ touch' = [touch EXCEPT !.listeners = @ + 1]
    /\ out' = <<>>
    /\ UNCHANGED <<logs, issued, imageData, revision, failures, imagesDB, openPending, store, keyGen, txq, activeFolder, view, folderList,
                   folderImages, reads, encodes, mediaDevices, batches>>

\* The camera element gets the metadata of its stream ('loadedmetadata'): from here
\* on videoWidth and videoHeight are those of the stream.  The script awaits nothing
\* between assigning the stream and a capture.
LoadedMetadata ==
    /\ srcObject = Stream
    /\ videoWidth = 0
    /\ videoWidth' = FrameWidth
    /\ out' = <<>>
    /\ UNCHANGED <<logs, issued, imageData, touch, revision, failures, imagesDB, openPending, store, keyGen, txq, activeFolder, view, folderList,
                   folderImages, reads, encodes, mediaDevices, gumPending, srcObject, batches>>

\* startCamera: getUserMedia rejected, the catch block
CameraFailed ==
    /\ gumPending > 0
    /\ gumPending' = gumPending - 1
    /\ out' = <<Error("Error starting camera"), Alert("Failed to access the camera.")>>
    /\ UNCHANGED <<logs, issued, imageData, touch, revision, failures, imagesDB, openPending, store, keyGen, txq, activeFolder, view, folderList,
                   folderImages, reads, encodes, mediaDevices, srcObject, videoWidth, batches>>

----------------------------------------------------------------------------
(* Tap to focus: the touchstart listeners of setupTapToFocus.  A listener is *)
(* only ever added after camera.srcObject has been set, and nothing resets   *)
(* srcObject, so its branch without a video track is never taken.            *)

\* What the video track of the device offers: no getCapabilities or applyConstraints
\* at all, capabilities without focus mode 'auto', or focus mode 'auto'.
FocusSupport == {"none", "manual", "auto"}

\* n copies of one report: every listener on the element runs.
RECURSIVE Each(_, _)
Each(n, x) == IF n = 0 THEN <<>> ELSE <<x>> \o Each(n - 1, x)

\* camera 'touchstart': every listener runs up to its await of applyConstraints
TouchStart(support) ==
    /\ touch.listeners > 0
    /\ IF support = "none"
       THEN /\ out' = Each(touch.listeners,
                           Error("Manual focus is not supported on this device/browser."))
            /\ touch' = touch
       ELSE IF support = "manual"
       THEN /\ out' = Each(touch.listeners, Error("Autofocus is not supported on this camera."))
            /\ touch' = touch
       ELSE /\ Len(touch.focusing) + touch.listeners <= MaxAsync
            /\ touch' = [touch EXCEPT !.focusing = @ \o Each(touch.listeners, "applying")]
            /\ out' = <<>>
    /\ UNCHANGED <<logs, issued, imageData, revision, failures, imagesDB, openPending, store, keyGen, txq, activeFolder, view, folderList,
                   folderImages, reads, encodes, mediaDevices, gumPending, srcObject, videoWidth, batches>>

\* The i-th autofocus request in flight is at the given stage; it goes on to another
\* stage, or is over.
FocusAt(i, stage) == i \in DOMAIN touch.focusing /\ touch.focusing[i] = stage
FocusOn(i, stage) == [touch EXCEPT !.focusing[i] = stage]
FocusOver(i) ==
    [touch EXCEPT !.focusing = SubSeq(@, 1, i - 1) \o SubSeq(@, i + 1, Len(@))]

\* touchstart listener: applyConstraints({focusMode: 'auto'}) resolved; the listener
\* sets its timer of two seconds
FocusApplied(i) ==
    /\ FocusAt(i, "applying")
    /\ touch' = FocusOn(i, "timer")
    /\ out' = <<>>
    /\ UNCHANGED <<logs, issued, imageData, revision, failures, imagesDB, openPending, store, keyGen, txq, activeFolder, view, folderList,
                   folderImages, reads, encodes, mediaDevices, gumPending, srcObject, videoWidth, batches>>

\* touchstart listener: applyConstraints rejected, the catch block
FocusFailed(i) ==
    /\ FocusAt(i, "applying")
    /\ touch' = FocusOver(i)
    /\ out' = <<Error("Error triggering autofocus:")>>
    /\ UNCHANGED <<logs, issued, imageData, revision, failures, imagesDB, openPending, store, keyGen, txq, activeFolder, view, folderList,
                   folderImages, reads, encodes, mediaDevices, gumPending, srcObject, videoWidth, batches>>

\* touchstart listener: the timer fires; continuous says whether the capabilities
\* read at the touch include focus mode 'continuous', which is then asked for
FocusTimer(i, continuous) ==
    /\ FocusAt(i, "timer")
    /\ touch' = IF continuous THEN FocusOn(i, "resetting") ELSE FocusOver(i)
    /\ out' = <<>>
    /\ UNCHANGED <<logs, issued, imageData, revision, failures, imagesDB, openPending, store, keyGen, txq, activeFolder, view, folderList,
                   folderImages, reads, encodes, mediaDevices, gumPending, srcObject, videoWidth, batches>>

\* timer callback: applyConstraints({focusMode: 'continuous'}) settles.  The callback
\* has no catch: a rejection is an unhandled one
FocusReset(i, resolved) ==
    /\ FocusAt(i, "resetting")
    /\ touch' = FocusOver(i)
    /\ out' = IF resolved THEN <<>> ELSE <<Uncaught("applyConstraints rejected")>>
    /\ UNCHANGED <<logs, issued, imageData, revision, failures, imagesDB, openPending, store, keyGen, txq, activeFolder, view, folderList,
                   folderImages, reads, encodes, mediaDevices, gumPending, srcObject, videoWidth, batches>>

----------------------------------------------------------------------------
(* Capture. *)

\* What canvas.toBlob will hand over: the canvas has the size of the video, 0 x 0
\* (and so no blob) while the camera element has no stream or has not yet the
\* metadata of the one assigned.
CanvasBlob == IF videoWidth > 0 THEN FrameBlob ELSE NullBlob

\* captureBtn 'click'
CaptureClick ==
    /\ view = "Scanning"
    /\ Len(encodes) < MaxAsync
    /\ encodes' = Append(encodes, CanvasBlob)
    /\ issued' = [issued EXCEPT !.encodes = Append(@, activeFolder)]
    /\ out' = <<>>
    /\ UNCHANGED <<logs, imageData, touch, revision, failures, imagesDB, openPending, store, keyGen, txq, activeFolder, view, folderList,
                   folderImages, reads, mediaDevices, gumPending, srcObject, videoWidth, batches>>

\* `Image_${Date.now()}.png`
CaptureName(now) == "Image_" \o ToString(now) \o ".png"

\* captureBtn: the callback of canvas.toBlob
CaptureEncoded(now) ==
    /\ encodes # <<>>
    /\ CanPut
    /\ encodes' = Tail(encodes)
    /\ issued' = [issued EXCEPT !.encodes = Tail(@)]
    /\ txq' = saveToIndexedDB(txq, Head(encodes), CaptureName(now), activeFolder, 0)
    /\ out' = saveToIndexedDBLog \o <<Alert("Image captured and saved!")>>
    /\ UNCHANGED <<logs, imageData, touch, revision, failures, imagesDB, openPending, store, keyGen, activeFolder, view, folderList,
                   folderImages, reads, mediaDevices, gumPending, srcObject, videoWidth, batches>>

----------------------------------------------------------------------------
(* Conversion batch: the processBtn handler, delegated to the service. *)

\* The state of one run of the handler.  saved counts the records of this run that
\* the store has committed, src is the folder that was active at the click (model
\* only: the code keeps no such count and does not read activeFolder at the click
\* beyond testing that it is set).
NewBatch ==
    [pc |-> "reading", src |-> "", images |-> <<>>, results |-> <<>>, dest |-> "", saved |-> 0]

\* `processed_${x}`
Processed(x) == "processed_" \o x

\* processBtn 'click', up to store.getAll(); n bounds the clicks that reach the store
ProcessClickUpTo(n) ==
    /\ IF activeFolder = ""
       THEN /\ out' = <<Alert("Please select a folder first.")>>
            /\ UNCHANGED <<txq, batches>>
       ELSE IF imagesDB = NULL
       THEN \* imagesDB.transaction(...) on null: the async handler rejects, nothing catches it
            /\ out' = <<Uncaught("TypeError: imagesDB is null")>>
            /\ UNCHANGED <<txq, batches>>
       ELSE /\ Len(batches) < n
            /\ Room(1)
            /\ batches' = Append(batches, [NewBatch EXCEPT !.src = activeFolder])
            /\ txq' = Append(txq, GetAllTx("process", Len(batches) + 1))
            /\ out' = <<>>
    /\ UNCHANGED <<logs, issued, imageData, touch, revision, failures, imagesDB, openPending, store, keyGen, activeFolder, view, folderList,
                   folderImages, reads, encodes, mediaDevices, gumPending, srcObject, videoWidth>>

ProcessClick == ProcessClickUpTo(MaxBatches)

\* js/script.js: the loop comes to the k-th image and calls processImage on a blob
\* that is no Blob.  URL.createObjectURL(null) throws inside the promise executor,
\* the promise rejects, and the handler, which has no catch, ends in that same task.
Throws(images, k) == revision = Local /\ k <= Len(images) /\ ~IsBlob(images[k].blob)
CreateObjectURLThrows == Uncaught("TypeError: createObjectURL")

\* processBtn: request.onsuccess, up to the first await (fetch, or processImage)
ProcessGetAllSuccess ==
    /\ txq # <<>>
    /\ Head(txq).op = "getAll" /\ Head(txq).cb = "process"
    /\ LET b == Head(txq).for
           images == InFolder(store, activeFolder)
       IN  IF Len(images) = 0
           THEN /\ batches' = [batches EXCEPT ![b].pc = "empty"]
                /\ out' = <<Alert("No images to process in this folder.")>>
           ELSE IF Throws(images, 1)
           THEN /\ batches' = [batches EXCEPT ![b].pc = "aborted",
                                              ![b].images = images,
                                              ![b].dest = Processed(activeFolder),
                                              ![b].results = <<"threw">>]
                /\ out' = <<CreateObjectURLThrows>>
           ELSE /\ batches' = [batches EXCEPT ![b].pc = "await",
                                              ![b].images = images,
                                              ![b].dest = Processed(activeFolder)]
                /\ out' = <<>>
    /\ txq' = Tail(txq)
    /\ UNCHANGED <<logs, issued, imageData, touch, revision, failures, imagesDB, openPending, store, keyGen, activeFolder, view, folderList,
                   folderImages, reads, encodes, mediaDevices, gumPending, srcObject, videoWidth>>

\* The alert after the loop
CompletionAlert(dest) == Alert("Processed images have been saved to the folder: " \o dest)

\* The image the loop is at, and whether it is the last one.
Current(B) == B.images[Len(B.results) + 1]
AtLast(B) == Len(B.results) + 1 = Len(B.images)

\* The loop goes on to the next image whatever became of this one.
LoopPc(B) == IF AtLast(B) THEN "done" ELSE "await"
LoopOut(B) == IF AtLast(B) THEN <<CompletionAlert(B.dest)>> ELSE <<>>

\* How a fetch can end: a success response, a non-success status, a transport error.
FetchOutcomes == {"ok", "status", "network"}

\* The try block reaches saveToIndexedDB: fetch resolved and response.ok
FetchConverted(outcome) == outcome = "ok"

\* How response.blob() can end: the body has arrived, or its transfer broke off.
BodyOutcomes == {"ok", "network"}

\* The catch block of the loop
CatchLog == <<Error("Error processing image"), Alert("Failed to process one or more images.")>>

\* Delegated revision.  processBtn: the fetch of the current image settles.  With a
\* success response the handler goes on to `await response.blob()`; otherwise the
\* catch block runs and the loop goes on to the next fetch (or, after the last
\* image, to the alert that ends the handler)
FetchReturn(b, outcome) ==
    /\ revision = Delegated
    /\ b \in DOMAIN batches
    /\ batches[b].pc = "await"
    /\ LET B == batches[b]
       IN  IF FetchConverted(outcome)
           THEN /\ batches' = [batches EXCEPT ![b].pc = "body"]
                /\ out' = <<>>
           ELSE /\ batches' = [batches EXCEPT ![b].results = Append(@, "failed"),
                                              ![b].pc = LoopPc(B)]
                /\ out' = CatchLog \o LoopOut(B)
    /\ UNCHANGED <<logs, issued, imageData, touch, revision, failures, imagesDB, openPending, store, keyGen, txq, activeFolder, view, folderList,
                   folderImages, reads, encodes, mediaDevices, gumPending, srcObject, videoWidth>>

\* Delegated revision.  processBtn: response.blob() settles.  The body is saved
\* (not awaited) or the catch block runs, and the loop goes on to the next fetch
\* (or, after the last image, to the alert that ends the handler)
BlobReturn(b, outcome) ==
    /\ revision = Delegated
    /\ b \in DOMAIN batches
    /\ batches[b].pc = "body"
    /\ FetchConverted(outcome) => Room(1)
    /\ LET B == batches[b]
       IN  /\ batches' = [batches EXCEPT
                  ![b].results = Append(@, IF FetchConverted(outcome) THEN "ok" ELSE "failed"),
                  ![b].pc = LoopPc(B)]
           /\ IF FetchConverted(outcome)
              THEN /\ txq' = saveToIndexedDB(txq, ServiceBlob(Current(B).blob),
                                             Processed(Current(B).name), B.dest, b)
                   /\ out' = saveToIndexedDBLog \o LoopOut(B)
              ELSE /\ txq' = txq
                   /\ out' = CatchLog \o LoopOut(B)
    /\ UNCHANGED <<logs, issued, imageData, touch, revision, failures, imagesDB, openPending, store, keyGen, activeFolder, view, folderList,
                   folderImages, reads, encodes, mediaDevices, gumPending, srcObject, videoWidth>>

\* Bytes that are no encoded raster image: what is left of a PNG file that was cut off.
NotAnImage == {"torn"}

\* Whether a blob loads as an image (img.onload rather than img.onerror): the browser
\* goes by its bytes, whatever type the blob declares.
Decodable(blob) == IsBlob(blob) /\ blob.data \notin NotAnImage

\* processImage(imageBlob) when the image loads: the canvas re-encoded as image/jpeg
InvertedBlob(blob) == MkBlob("inverted " \o blob.data, "image/jpeg")

\* What processImage(imageBlob) resolves with: null from img.onerror
processImage(imageBlob) ==
    IF Decodable(imageBlob) THEN InvertedBlob(imageBlob) ELSE NullBlob

\* Local revision.  processBtn: one turn of the loop, from processImage settling to the
\* next await: the result is saved (null too), and processImage is called on the
\* next image, which throws there and ends the handler if that blob is no Blob.
ImageProcessed(b) ==
    /\ revision = Local
    /\ b \in DOMAIN batches
    /\ batches[b].pc = "await"
    /\ Room(1)
    /\ LET B == batches[b]
           result == IF Decodable(Current(B).blob) THEN "ok" ELSE "failed"
           log == (IF Decodable(Current(B).blob) THEN <<>>
                   ELSE <<Error("Failed to process image.")>>) \o saveToIndexedDBLog
       IN  /\ txq' = saveToIndexedDB(txq, processImage(Current(B).blob),
                                     Processed(Current(B).name), B.dest, b)
           /\ IF Throws(B.images, Len(B.results) + 2)
              THEN /\ batches' = [batches EXCEPT ![b].results = @ \o <<result, "threw">>,
                                                 ![b].pc = "aborted"]
                   /\ out' = log \o <<CreateObjectURLThrows>>
              ELSE /\ batches' = [batches EXCEPT ![b].results = Append(@, result),
                                                 ![b].pc = LoopPc(B)]
                   /\ out' = log \o LoopOut(B)
    /\ UNCHANGED <<logs, issued, imageData, touch, revision, failures, imagesDB, openPending, store, keyGen, activeFolder, view, folderList,
                   folderImages, reads, encodes, mediaDevices, gumPending, srcObject, videoWidth>>

----------------------------------------------------------------------------
(* processImage on the pixels: img.onload draws the image and reads its RGBA   *)
(* bytes with getImageData, the loop inverts them, putImageData writes them     *)
(* back and canvas.toBlob encodes the canvas as image/jpeg.  A result that is   *)
(* converted again is decoded from that JPEG.                                   *)

MaxPixels == 1        \* pixels of the images converted
MaxConversions == 2   \* times an image and then its result are converted
MaxJpegLoss == 1      \* what the JPEG encoding may change a channel value by

\* Channel values the pixels of an input image are drawn from.
ChannelValues == {0, 127, 128, 255}

\* A store into a Uint8ClampedArray clamps to 0..255.
Clamp8(x) == IF x < 0 THEN 0 ELSE IF x > 255 THEN 255 ELSE x

\* data[i] = 255 - data[i]
Invert(v) == Clamp8(255 - v)

\* for (let i = 0; i < data.length; i += 4): red, green and blue of each pixel are
\* inverted, the fourth byte (alpha) is not touched
InvertPixels(data) ==
    [i \in DOMAIN data |-> IF i % 4 = 0 THEN data[i] ELSE Invert(data[i])]

\* The ImageData of an image of n pixels: 4 bytes a pixel.
ImageDatas(n) == [1..(4 * n) -> ChannelValues]

\* The alpha byte of the pixel that byte i belongs to.
AlphaOf(data, i) == data[4 * ((i - 1) \div 4) + 4]

\* JPEG has no alpha channel: the encoder takes each pixel as drawn over opaque black.
OverBlack(v, alpha) == (v * alpha + 127) \div 255

\* The pixels a JPEG of the canvas can decode to: every pixel opaque, every colour
\* channel what the encoder made of it (the encoding is lossy; by how much is the
\* encoder's choice, here within MaxJpegLoss).
JpegPixels(data) ==
    { [i \in DOMAIN data |->
           IF i % 4 = 0 THEN 255 ELSE Clamp8(OverBlack(data[i], AlphaOf(data, i)) + loss[i])]
      : loss \in [DOMAIN data -> (0 - MaxJpegLoss)..MaxJpegLoss] }

\* processImage, img.onload: the loop runs once over the ImageData read from the canvas
PixelLoop ==
    /\ imageData.stage = "read"
    /\ imageData' = [imageData EXCEPT !.data = InvertPixels(@), !.stage = "inverted"]
    /\ out' = <<>>
    /\ UNCHANGED <<logs, issued, touch, revision, failures, imagesDB, openPending, store, keyGen, txq, activeFolder, view, folderList,
                   folderImages, reads, encodes, mediaDevices, gumPending, srcObject, videoWidth, batches>>

\* processImage: the callback of canvas.toBlob(..., 'image/jpeg') resolves with the
\* blob; data are from here the pixels that blob decodes to
ToBlobJpeg ==
    /\ imageData.stage = "inverted"
    /\ \E pixels \in JpegPixels(imageData.data):
           imageData' = [imageData EXCEPT !.data = pixels, !.stage = "encoded", !.passes = @ + 1]
    /\ out' = <<>>
    /\ UNCHANGED <<logs, issued, touch, revision, failures, imagesDB, openPending, store, keyGen, txq, activeFolder, view, folderList,
                   folderImages, reads, encodes, mediaDevices, gumPending, srcObject, videoWidth, batches>>

\* processImage called on the result of the conversion before: img.onload draws the
\* decoded JPEG and getImageData reads it
ResultLoaded ==
    /\ imageData.stage = "encoded"
    /\ imageData.passes < MaxConversions
    /\ imageData' = [imageData EXCEPT !.stage = "read"]
    /\ out' = <<>>
    /\ UNCHANGED <<logs, issued, touch, revision, failures, imagesDB, openPending, store, keyGen, txq, activeFolder, view, folderList,
                   folderImages, reads, encodes, mediaDevices, gumPending, srcObject, videoWidth, batches>>

\* An image is on the canvas and its ImageData has been read.
InitPixels ==
    /\ \E n \in 1..MaxPixels: \E d \in ImageDatas(n):
           imageData = [orig |-> d, data |-> d, passes |-> 0, stage |-> "read"]
    /\ revision = Local
    /\ mediaDevices = TRUE
    /\ imagesDB = NULL
    /\ openPending = TRUE
    /\ store = <<>>
    /\ keyGen = PriorKeys + 1
    /\ txq = <<>>
    /\ activeFolder = ""
    /\ view = "Menu"
    /\ folderList = <<>>
    /\ folderImages = <<>>
    /\ reads = {}
    /\ encodes = <<>>
    /\ gumPending = 0
    /\ srcObject = NoStream
    /\ videoWidth = 0
    /\ touch = NoTouch
    /\ logs = NoLogs
    /\ batches = <<>>
    /\ issued = NoneIssued
    /\ failures = 0
    /\ out = <<>>

\* The local conversion of one image, and then of its own result.
NextPixels == PixelLoop \/ ToBlobJpeg \/ ResultLoaded
SpecPixels == InitPixels /\ [][NextPixels]_vars

\* processBtn: request.onerror; the handler ends without a batch having run
ProcessGetAllError ==
    /\ txq # <<>>
    /\ failures < MaxFailures
    /\ failures' = failures + 1
    /\ Head(txq).op = "getAll" /\ Head(txq).cb = "process"
    /\ batches' = [batches EXCEPT ![Head(txq).for].pc = "unread"]
    /\ txq' = Tail(txq)
    /\ out' = <<Error("Error retrieving images for processing"),
                Alert("Failed to retrieve images for processing.")>>
    /\ UNCHANGED <<logs, issued, imageData, touch, revision, imagesDB, openPending, store, keyGen, activeFolder, view, folderList,
                   folderImages, reads, encodes, mediaDevices, gumPending, srcObject, videoWidth>>

----------------------------------------------------------------------------
(* Specifications.  Handlers are grouped by the part of the program they    *)
(* drive.  Every specification starts at launch and contains the store with *)
(* its success and its error callbacks (the store fails at most MaxFailures *)
(* requests of a session), and every callback of the parts it contains.     *)
(* What a specification leaves out is a part the user does not use in the   *)
(* sessions it describes; the comment of each says which.  The export-logs  *)
(* button is in Spec and SpecExport; in the others the user leaves it.      *)

StoreSteps ==
    \/ InitSuccess
    \/ InitError
    \/ ClearSuccess
    \/ AddComplete
    \/ RetrieveSuccess

\* The store fails a request of the startup clear, of a save or of a refresh.
StoreFailures ==
    \/ ClearError
    \/ AddError
    \/ RetrieveError

\* A file the user picks that does not decode, though it has the name and the type of
\* a PNG image.
TornFile == [name |-> "torn.png", data |-> "torn", type |-> "image/png"]

UploadSteps(files) ==
    \/ \E file \in files \cup {NoFile}: UploadChange(file)
    \/ \E file \in files: ReaderLoad(file)
    \/ \E file \in files: ReaderError(file)

FolderStepsOf(inputs) ==
    \/ \E folderName \in inputs: ScanBtnClick(folderName)
    \/ \E i \in DOMAIN folderList: FolderItemClick(i)
    \/ BackContentsClick

FolderSteps == FolderStepsOf(PromptInputs)

TapSteps ==
    \/ \E support \in FocusSupport: TouchStart(support)
    \/ \E i \in 1..MaxAsync: FocusApplied(i)
    \/ \E i \in 1..MaxAsync: FocusFailed(i)
    \/ \E i \in 1..MaxAsync, continuous \in BOOLEAN: FocusTimer(i, continuous)
    \/ \E i \in 1..MaxAsync, resolved \in BOOLEAN: FocusReset(i, resolved)

ScanSteps ==
    \/ BackScanClick
    \/ StartScanClick
    \/ CameraStarted
    \/ LoadedMetadata
    \/ CameraFailed
    \/ CaptureClick
    \/ \E now \in Times: CaptureEncoded(now)
    \/ TapSteps

ProcessSteps ==
    \/ ProcessClick
    \/ ProcessGetAllSuccess

FetchStepsOf(n) ==
    \/ \E b \in 1..n, outcome \in FetchOutcomes: FetchReturn(b, outcome)
    \/ \E b \in 1..n, outcome \in BodyOutcomes: BlobReturn(b, outcome)

FetchSteps == FetchStepsOf(MaxBatches)

LocalSteps == \E b \in 1..MaxBatches: ImageProcessed(b)

LogSteps ==
    \/ ExportLogsClick
    \/ ExportLogsSuccess
    \/ ExportLogsError

DeleteSteps ==
    \/ \E confirmed \in BOOLEAN: DeleteAllClick(confirmed)
    \/ DeleteAllSuccess

\* Every handler of the later revision.
Next ==
    \/ StoreSteps \/ UploadSteps(Files) \/ FolderSteps \/ ScanSteps
    \/ ProcessSteps \/ FetchSteps \/ DeleteSteps \/ LogSteps
    \/ StoreFailures \/ DeleteAllError \/ ProcessGetAllError
Spec == InitAnyDatabase /\ [][Next]_vars

\* Later revision: uploads, folders and delete-all.  The user neither scans nor
\* converts.
NextIngest ==
    \/ StoreSteps \/ UploadSteps(Files) \/ FolderSteps \/ DeleteSteps
    \/ StoreFailures \/ DeleteAllError
SpecIngest == Init /\ [][NextIngest]_vars

\* Later revision: uploads, folders, delete-all and the delegated conversion.  The
\* user does not scan.
NextBatch ==
    \/ StoreSteps \/ UploadSteps(Files) \/ FolderSteps
    \/ ProcessSteps \/ FetchSteps \/ DeleteSteps
    \/ StoreFailures \/ DeleteAllError \/ ProcessGetAllError
SpecBatch == Init /\ [][NextBatch]_vars

\* Later revision: the scanning view with folders, camera, tap to focus, capture and
\* delete-all.  The user picks no file and does not convert.
NextScan ==
    \/ StoreSteps \/ FolderSteps \/ ScanSteps \/ DeleteSteps
    \/ StoreFailures \/ DeleteAllError
SpecScan == InitAnywhere /\ [][NextScan]_vars

\* js/script.js: uploads (of an image and of a file that does not decode), folders
\* and the local conversion; this revision has no delete-all.  The user does not scan.
NextLocal ==
    \/ StoreSteps \/ UploadSteps(Files \cup {TornFile}) \/ FolderSteps
    \/ ProcessSteps \/ LocalSteps
    \/ StoreFailures \/ ProcessGetAllError
SpecLocal == InitOf(Local) /\ [][NextLocal]_vars

\* Later revision: uploads and folders, the user also typing a folder name that is
\* the name of an inherited property of a JavaScript object.
NextIndex ==
    \/ StoreSteps \/ UploadSteps(Files) \/ FolderStepsOf(PromptInputs \cup {"constructor", "1"})
    \/ StoreFailures
SpecIndex == Init /\ [][NextIndex]_vars

\* Later revision: uploads, folders, the download-all button and the export-logs
\* button, over a database of either revision.  The user neither scans nor converts.
NextExport ==
    \/ StoreSteps \/ UploadSteps(Files) \/ FolderSteps \/ DownloadAllClick \/ LogSteps
    \/ StoreFailures
SpecExport == InitIn(Delegated, {TRUE}, BOOLEAN) /\ [][NextExport]_vars

\* Later revision: uploads into one folder and the conversion, the process button
\* being clicked again while a batch is running.
MaxReclicks == 2    \* processBtn clicks that reach the store

NextReclick ==
    \/ StoreSteps \/ StoreFailures \/ UploadSteps(Files)
    \/ \E folderName \in {"A"}: ScanBtnClick(folderName)
    \/ ProcessClickUpTo(MaxReclicks)
    \/ ProcessGetAllSuccess
    \/ ProcessGetAllError
    \/ FetchStepsOf(MaxReclicks)
SpecReclick == Init /\ [][NextReclick]_vars

----------------------------------------------------------------------------
(* Properties. *)

Range(s) == {s[i] : i \in DOMAIN s}

\* Writes of batch b still queued, and conversions of a batch that did not succeed.
PendingBy(b) == Cardinality({i \in DOMAIN txq : txq[i].op = "add" /\ txq[i].by = b})
Failures(results) == Cardinality({i \in DOMAIN results : results[i] # "ok"})

\* A batch has just ended its loop in this step.
Finishes(b) ==
    b \in DOMAIN batches /\ batches[b].pc \in {"await", "body"} /\ batches'[b].pc = "done"

\* C1: a batch over N assets of which k conversions fail is never aborted, attempts
\* all N, hands the store exactly N - k records, and reports completion when its
\* loop ends.
C1_PartialFailure ==
    [][\A b \in DOMAIN batches':
         LET B == batches'[b]
         IN  /\ B.pc # "aborted"
             /\ B.pc = "done" =>
                    /\ Len(B.results) = Len(B.images)
                    /\ B.saved + PendingBy(b)' = Len(B.images) - Failures(B.results)
             /\ Finishes(b) => CompletionAlert(B.dest) \in Range(out')]_vars

\* C2: the capture device is held only while the view is Scanning.
C2_DeviceOnlyWhileScanning ==
    view \in {"Menu", "FolderContents"} => srcObject = NoStream

\* The put of an upload or a capture refused because the store is not initialized.
CannotSave == Error("Cannot save: IndexedDB is not initialized.")

\* C3: a put issued while the store is uninitialized is refused (logged, no
\* transaction), the store is unchanged, and no write waits to be executed when
\* initialization completes.
C3_NoWriteBeforeReady ==
    [][imagesDB = NULL =>
         /\ store' = store
         /\ keyGen' = keyGen
         /\ \A i \in DOMAIN txq': txq'[i].op # "add"
         /\ \A f \in Files: ReaderLoad(f) => (txq' = txq /\ CannotSave \in Range(out'))]_vars

\* Initialization has failed, a put was then refused, last session's records are untouched.
C3_Witness ==
    /\ imagesDB = NULL /\ ~openPending
    /\ CannotSave \in Range(out)
    /\ store = PriorStore /\ txq = <<>>

\* What the code logs when it refuses an operation for want of the store handle.
NotReady ==
    { Error("Cannot clear: IndexedDB is not initialized."),
      Error("Cannot save: IndexedDB is not initialized."),
      Error("Cannot retrieve images: IndexedDB is not initialized."),
      Error("Cannot delete files: IndexedDB is not initialized.") }

\* A handler that goes to the store: a listing (folder selection, back), a confirmed
\* delete-all, the conversion pipeline started with an active folder.
StoreTouching ==
    \/ \E folderName \in FolderNames: ScanBtnClick(folderName)
    \/ BackContentsClick
    \/ DeleteAllClick(TRUE)
    \/ activeFolder # "" /\ ProcessClick

\* C4: every store-touching operation issued before initialization completes is
\* refused as not ready, and leaves the store and its queue as they were.
C4_StoreNotReady ==
    [][(imagesDB = NULL /\ StoreTouching) =>
         /\ Range(out') \cap NotReady # {}
         /\ store' = store
         /\ txq' = txq]_vars

\* Only records of this session: the keys up to PriorKeys were handed out before launch.
SessionOnly(images) == \A i \in DOMAIN images: images[i].id > PriorKeys

\* The startup clear commits in this step.
StartupClearCommits ==
    txq # <<>> /\ Head(txq) = ClearTx("clearIndexedDB") /\ txq' = Tail(txq) /\ failures' = failures

\* C5: initialization queues the startup clear ahead of every other store operation;
\* when it commits the store and the folder list are empty; and whatever a listing
\* shows afterwards (folder list, folder contents) was put in this session.
C5_SessionScoped ==
    [][/\ (imagesDB = NULL /\ imagesDB' # NULL) => txq' = <<ClearTx("clearIndexedDB")>>
       /\ StartupClearCommits => (store' = <<>> /\ folderList' = <<>>)
       /\ \A e \in Range(folderList'): SessionOnly(e.images)
       /\ SessionOnly(folderImages')]_vars

\* After initialization a listing shows a folder and its assets.
C5_Witness ==
    /\ imagesDB = DB
    /\ folderList # <<>> /\ folderImages # <<>>
    /\ SessionOnly(store)

\* The clear of a confirmed delete-all commits; the refresh it asked for is delivered.
DeleteAllCommits ==
    txq # <<>> /\ Head(txq) = ClearTx("deleteAll") /\ Len(txq') = Len(txq) /\ Head(txq') # Head(txq)
DeleteAllRefresh ==
    txq # <<>> /\ Head(txq) = GetAllTx("retrieve", "deleteAll") /\ txq' = Tail(txq) /\ failures' = failures

C7_DeclineChangesNothing ==
    [][DeleteAllClick(FALSE) =>
         UNCHANGED <<store, keyGen, txq, folderList, folderImages, activeFolder, view>>]_vars

\* The confirmation was shown and declined (nothing is queued) over a non-empty store.
C7_Witness ==
    /\ out = <<AreYouSure>>
    /\ txq = <<>>
    /\ store # <<>> /\ folderList # <<>> /\ folderImages # <<>>

\* A toBlob callback runs; a queued add commits.
CaptureWrites == encodes # <<>> /\ encodes' = Tail(encodes)
AddCommits == txq # <<>> /\ Head(txq).op = "add" /\ keyGen' # keyGen
SaveRefresh == txq # <<>> /\ Head(txq) = GetAllTx("retrieve", "save") /\ txq' = Tail(txq) /\ failures' = failures
Last(s) == s[Len(s)]

\* The folder that was active when the read of file f was asked for.
IssuedIn(f) == CHOOSE folder \in FolderNames \cup {""}: <<f, folder>> \in issued.reads

\* What the folder index shows for folder f.
EntryOf(list, f) == [i \in {j \in DOMAIN list: list[j].folderName = f} |-> list[i].images]

\* C8: with the store initialized and active folder F at the capture, the capture
\* queues exactly one record with folder F and touches no stored record; its
\* commit appends that one record under a fresh key and leaves the others as they
\* were; and the refresh after a write shows every folder of the store once, with
\* its records in store order, so the newest record last under its folder.
C8_CaptureAddsOne ==
    [][/\ (CaptureWrites /\ imagesDB # NULL /\ Head(issued.encodes) # "") =>
              /\ \E now \in Times:
                     txq' = Append(txq, [op |-> "add",
                                         rec |-> [name |-> CaptureName(now),
                                                  blob |-> Head(encodes),
                                                  folder |-> Head(issued.encodes)],
                                         by |-> 0])
              /\ store' = store
       /\ AddCommits =>
              LET rec == Head(txq).rec
                  new == [id |-> keyGen, name |-> rec.name, blob |-> rec.blob, folder |-> rec.folder]
              IN  /\ store' = Append(store, new)
                  /\ \A i \in DOMAIN store: store[i].id < new.id
                  /\ Last(InFolder(store', rec.folder)) = new
       /\ (SaveRefresh /\ store # <<>>) =>
              LET shown == EntryOf(folderList', Last(store).folder)
              IN  /\ Cardinality(DOMAIN shown) = 1
                  /\ \A i \in DOMAIN shown:
                         shown[i] = InFolder(store, Last(store).folder) /\ Last(shown[i]) = Last(store)]_vars

\* C8 with F read as the folder that is active when the toBlob callback runs.
C8_AtCallback ==
    [][(CaptureWrites /\ imagesDB # NULL) =>
              /\ \E now \in Times:
                     txq' = Append(txq, [op |-> "add",
                                         rec |-> [name |-> CaptureName(now),
                                                  blob |-> Head(encodes),
                                                  folder |-> activeFolder],
                                         by |-> 0])
              /\ store' = store]_vars

\* C9: an upload of file X made while the active folder is F queues (the store
\* being initialized) exactly one record named X with folder F and the file's
\* bytes, and the commit of a put appends exactly the record queued.
C9_UploadKeepsName ==
    [][/\ \A f \in reads:
              (ReaderLoad(f) /\ imagesDB # NULL /\ IssuedIn(f) # "") =>
                  txq' = Append(txq, [op |-> "add",
                                      rec |-> [name |-> f.name,
                                               blob |-> MkBlob(f.data, f.type),
                                               folder |-> IssuedIn(f)],
                                      by |-> 0])
       /\ AddCommits =>
              store' = Append(store, [id |-> keyGen,
                                      name |-> Head(txq).rec.name,
                                      blob |-> Head(txq).rec.blob,
                                      folder |-> Head(txq).rec.folder])]_vars

\* C9 with F read as the folder that is active when the file has been read.
C9_AtLoad ==
    [][\A f \in reads:
              (ReaderLoad(f) /\ imagesDB # NULL) =>
                  txq' = Append(txq, [op |-> "add",
                                      rec |-> [name |-> f.name,
                                               blob |-> MkBlob(f.data, f.type),
                                               folder |-> activeFolder],
                                      by |-> 0])]_vars

\* C10: ingestion with no active folder writes nothing, so no record, stored or
\* queued, has the empty folder name.
C10_NoActiveFolder ==
    [][/\ \A f \in Files: (activeFolder = "" /\ ReaderLoad(f)) => txq' = txq
       /\ \A i \in DOMAIN store': store'[i].folder # ""]_vars

\* What the user is told when a capture or an upload is taken as done.
ToldSaved ==
    {Alert("Image captured and saved!")}
        \cup {Alert("Image uploaded successfully: " \o f.name) : f \in Files \cup {TornFile}}

\* C11: a capture or an upload tells the user the image was saved or uploaded only
\* if its write went to the store: never while the store is uninitialized, and
\* never without a record of it queued or committed.
C11_ToldOnlyIfWritten ==
    [][Range(out') \cap ToldSaved # {} =>
         /\ imagesDB # NULL
         /\ Len(txq') = Len(txq) + 1 /\ txq'[Len(txq')].op = "add"]_vars

\* The store read of batch b is delivered in this step.
BatchReads(b) ==
    txq # <<>> /\ Head(txq) = GetAllTx("process", b) /\ txq' = Tail(txq) /\ failures' = failures

NoActiveFolderAlert == Alert("Please select a folder first.")
EmptyFolderAlert == Alert("No images to process in this folder.")

\* C12: the pipeline started with no active folder fails with NoActiveFolder and
\* changes nothing; started (with the store initialized) on an active folder for
\* which its read of the store finds no asset it fails with EmptyFolder; a batch
\* so rejected converts nothing, writes nothing and never reports completion.
C12_RejectsWithoutEffect ==
    [][/\ (activeFolder = "" /\ ProcessClick) =>
              /\ out' = <<NoActiveFolderAlert>>
              /\ UNCHANGED <<store, keyGen, txq, batches>>
       /\ \A b \in DOMAIN batches:
              /\ (BatchReads(b) /\ InFolder(store, batches[b].src) = <<>>) =>
                     /\ batches'[b].pc = "empty"
                     /\ out' = <<EmptyFolderAlert>>
                     /\ UNCHANGED <<store, keyGen>>
              /\ batches[b].pc = "empty" =>
                     /\ batches'[b] = batches[b]
                     /\ batches[b].results = <<>> /\ batches[b].saved = 0 /\ PendingBy(b) = 0]_vars

\* C12 read on the folder that is active when the read is delivered.
C12_AtRead ==
    [][\A b \in DOMAIN batches:
              /\ (BatchReads(b) /\ InFolder(store, activeFolder) = <<>>) =>
                     /\ batches'[b].pc = "empty"
                     /\ out' = <<EmptyFolderAlert>>
                     /\ UNCHANGED <<store, keyGen>>]_vars

\* A write of batch b is queued in this step, and the record it carries.
BatchWrites(b) ==
    /\ Len(txq') = Len(txq) + 1
    /\ Last(txq').op = "add" /\ Last(txq').by = b
NewRecord == Last(txq').rec

\* C13: every record a batch started on folder S writes has folder "processed_" + S
\* and name "processed_" + the name of the source asset it was converted from,
\* whichever folder is active by then.
C13_DerivedNames ==
    [][\A b \in DOMAIN batches:
         BatchWrites(b) =>
             /\ NewRecord.folder = Processed(batches[b].src)
             /\ NewRecord.name = Processed(Current(batches[b]).name)
             /\ Current(batches[b]).folder = batches[b].src]_vars

\* C13 with S read as the folder active when the read of the batch was delivered.
C13_AtRead ==
    [][\A b \in DOMAIN batches:
         /\ BatchReads(b) => batches'[b].dest \in {"", Processed(activeFolder)}
         /\ BatchWrites(b) =>
             /\ NewRecord.folder = batches[b].dest
             /\ NewRecord.name = Processed(Current(batches[b]).name)
             /\ Processed(Current(batches[b]).folder) = batches[b].dest]_vars

\* The refresh of the folder list is delivered in this step.
ListRefresh ==
    txq # <<>> /\ Head(txq).op = "getAll" /\ Head(txq).cb = "retrieve" /\ txq' = Tail(txq) /\ failures' = failures

FoldersOf(images) == {images[i].folder : i \in DOMAIN images}

\* C14: the folder index derived from the store has exactly one entry per distinct
\* folder value present in the store, and each entry holds exactly the records with
\* that folder value, in store order.
C14_IndexGroupsByFolder ==
    [][ListRefresh =>
         /\ {folderList'[i].folderName : i \in DOMAIN folderList'} = FoldersOf(store)
         /\ Len(folderList') = Cardinality(FoldersOf(store))
         /\ \A i \in DOMAIN folderList':
                folderList'[i].images = InFolder(store, folderList'[i].folderName)]_vars

\* A clear (the startup one or that of delete-all) commits in this step.
ClearCommits ==
    /\ txq # <<>> /\ Head(txq).op = "clear" /\ txq' # txq /\ failures' = failures
    /\ Len(txq') \in {Len(txq) - 1, Len(txq)}
    /\ SubSeq(txq', 1, Len(txq) - 1) = Tail(txq)

\* Record r is listed: the index drawn from the listing has it under its folder.
Listed(r, list) == \E e \in Range(list): e.folderName = r.folder /\ r \in Range(e.images)

\* C15: a committed put leaves in the store a record with the name, folder and
\* payload it was given; no step alters a stored record (a clear removes them all);
\* and a listing delivered afterwards shows every stored record with that same
\* name, folder and payload.
C15_RoundTrip ==
    [][/\ AddCommits =>
              LET rec == Head(txq).rec
              IN  /\ Len(store') = Len(store) + 1
                  /\ Last(store').name = rec.name
                  /\ Last(store').folder = rec.folder
                  /\ Last(store').blob = rec.blob
       /\ ~ClearCommits => \A i \in DOMAIN store: store'[i] = store[i]
       /\ ListRefresh => \A i \in DOMAIN store: Listed(store[i], folderList')]_vars

\* C15 up to the store: what a put commits is what it was given, and it stays so.
C15_StoredAsPut ==
    [][/\ AddCommits =>
              LET rec == Head(txq).rec
              IN  /\ Len(store') = Len(store) + 1
                  /\ Last(store').name = rec.name
                  /\ Last(store').folder = rec.folder
                  /\ Last(store').blob = rec.blob
       /\ ~ClearCommits => \A i \in DOMAIN store: store'[i] = store[i]]_vars

\* C15 for folders whose name is not that of an inherited property.
C15_ListedUnlessInherited ==
    [][(ListRefresh /\ ~ReduceThrows(store)) =>
           \A i \in DOMAIN store: Listed(store[i], folderList')]_vars

AllDeleted == Alert("All files have been deleted.")

\* C16: every clear that commits leaves the store empty and raises no error, also
\* when the store was already empty (two clears in a row: the startup clear and a
\* delete-all, or two delete-alls).
C16_ClearIdempotent ==
    [][ClearCommits =>
         /\ store' = <<>>
         /\ keyGen' = keyGen
         /\ Range(out') \subseteq {AllDeleted}]_vars

\* Two delete-alls in a row have both committed: the store is empty, the second has
\* reported success, and the refreshes of both are still to come.
C16_Witness ==
    /\ txq = <<GetAllTx("retrieve", "deleteAll"), GetAllTx("retrieve", "deleteAll")>>
    /\ store = <<>>
    /\ out = <<AllDeleted>>

CameraAlert == Alert("Failed to access the camera.")

\* C17: when acquiring the camera fails after "start scan", the view is
\* FolderContents again, the device is not held, and the failure is reported to the
\* user once, with no new attempt to acquire it.
C17_CameraFailureAborts ==
    [][CameraFailed =>
         /\ view' = "FolderContents"
         /\ srcObject' = NoStream
         /\ Cardinality({i \in DOMAIN out': out'[i] = CameraAlert}) = 1
         /\ gumPending' = gumPending - 1]_vars

\* C17 without the return to the prior view.
C17_ReportedOnceNoRetry ==
    [][(CameraFailed /\ srcObject = NoStream) =>
         /\ srcObject' = NoStream
         /\ Cardinality({i \in DOMAIN out': out'[i] = CameraAlert}) = 1
         /\ gumPending' = gumPending - 1]_vars

\* The transitions the state machine of the views lists.
ViewTransitions ==
    { <<"Menu", "FolderContents">>, <<"FolderContents", "Scanning">>,
      <<"FolderContents", "Menu">>, <<"Scanning", "Menu">> }

\* C18: the view starts as Menu, is always one of Menu, FolderContents, Scanning,
\* changes only by the listed transitions, and while it is FolderContents or
\* Scanning the active folder is non-empty.
C18_ViewMachine ==
    /\ view = "Menu"
    /\ [][/\ view' \in {"Menu", "FolderContents", "Scanning"}
          /\ view' # view => <<view, view'>> \in ViewTransitions
          /\ view' \in {"FolderContents", "Scanning"} => activeFolder' # ""]_vars

\* C18 without the condition on the active folder.
C18_TransitionsOnly ==
    /\ view = "Menu"
    /\ [][/\ view' \in {"Menu", "FolderContents", "Scanning"}
          /\ view' # view => <<view, view'>> \in ViewTransitions]_vars

NoNameAlert == Alert("No folder name entered. Please try again.")

\* C19: an empty (or cancelled) folder name at the prompt aborts the selection: the
\* active folder, the view (Menu), the store and the displayed folder index are as
\* before, and no store operation is queued.
C19_EmptyNameAborts ==
    [][ScanBtnClick("") =>
         /\ view = "Menu" /\ view' = "Menu"
         /\ out' = <<NoNameAlert>>
         /\ UNCHANGED <<activeFolder, store, keyGen, txq, folderList, folderImages>>]_vars

\* The prompt was left empty while a folder had been active before and the index
\* shows folders.
C19_Witness ==
    /\ out = <<NoNameAlert>>
    /\ view = "Menu" /\ activeFolder # ""
    /\ store # <<>> /\ folderList # <<>> /\ folderImages # <<>>

\* The bundle an export of the given assets would hand the user: their names, in order.
RECURSIVE Names(_)
Names(images) ==
    IF images = <<>> THEN "" ELSE " " \o Head(images).name \o Names(Tail(images))
Bundle(images) == "bundle:" \o Names(images)

\* C20: exporting the active folder when it holds N >= 1 assets hands the user a
\* bundle with exactly N entries named as the stored assets, in insertion order,
\* and leaves the store as it was.
C20_ExportComplete ==
    [][(DownloadAllClick /\ InFolder(store, activeFolder) # <<>>) =>
         /\ Bundle(InFolder(store, activeFolder)) \in Range(out')
         /\ UNCHANGED <<store, keyGen, txq>>]_vars

\* C21: ids come from the store's key generator, never from a producer (no queued
\* write carries an id); stored ids are strictly increasing in insertion order and
\* all below the next key; and the key generator never goes back, so an id is not
\* handed out again after a clear.
C21_IdsStoreAssigned ==
    /\ [](/\ \A i \in DOMAIN txq: txq[i].op = "add" => "id" \notin DOMAIN txq[i].rec
          /\ \A i \in DOMAIN store: store[i].id < keyGen
          /\ \A i, j \in DOMAIN store: i < j => store[i].id < store[j].id)
    /\ [][/\ keyGen' >= keyGen
          /\ AddCommits => (Last(store').id = keyGen /\ keyGen' = keyGen + 1)]_vars

\* A record was written, a delete-all removed it, and the record written next has
\* the id after it.
C21_Witness ==
    /\ Len(store) = 1
    /\ store[1].id = PriorKeys + 2
    /\ keyGen = PriorKeys + 3

\* A step of a conversion batch: the click, the read, one turn of the loop.
BatchStep ==
    \/ ProcessClick
    \/ ProcessGetAllSuccess
    \/ \E b \in DOMAIN batches: batches'[b].results # batches[b].results

\* C22: a stored record is never modified: in every step that is not the commit of
\* a clear each record stays where it is with its id, name, payload and folder;
\* records go only all at once, by the startup clear or a delete-all; and no step
\* of a conversion batch changes the store at all.
C22_RecordsImmutable ==
    [][/\ ~ClearCommits =>
              /\ Len(store') >= Len(store)
              /\ \A i \in DOMAIN store: store'[i] = store[i]
       /\ ClearCommits => store' = <<>>
       /\ BatchStep => store' = store]_vars

\* A batch over folder "A" has run to its end and its result is committed: the
\* source asset is still there, unchanged, before the converted one.
C22_Witness ==
    /\ Len(store) = 2
    /\ store[1].name = "frame1.png" /\ store[1].folder = "A"
    /\ store[1].blob = MkBlob("neg1", "image/png")
    /\ store[2].folder = Processed("A") /\ store[2].name = Processed("frame1.png")
    /\ batches # <<>> /\ batches[1].pc = "done"

\* C23: every record in the store has a well-formed payload, a blob with a type.
C23_PayloadWellFormed ==
    \A i \in DOMAIN store: IsBlob(store[i].blob)

Odd(n) == n % 2 = 1

\* How many times the pixels held have been inverted.
Inversions == imageData.passes + (IF imageData.stage = "inverted" THEN 1 ELSE 0)

\* C24: the local conversion maps every colour channel value v in 0..255 to
\* 255 - v, a value in 0..255 again, and leaves alpha unchanged; applied twice it
\* restores every channel value: after an odd number of conversions every red,
\* green and blue byte is 255 minus the original, after an even number it is the
\* original, and the alpha byte is the original throughout.
C24_InversionInvolution ==
    /\ \A v \in 0..255: Invert(v) = 255 - v /\ Invert(v) \in 0..255
    /\ \A i \in DOMAIN imageData.data:
           IF i % 4 = 0
           THEN imageData.data[i] = imageData.orig[i]
           ELSE IF Odd(Inversions)
           THEN imageData.data[i] = 255 - imageData.orig[i]
           ELSE imageData.data[i] = imageData.orig[i]

\* C24 for the loop alone: one run of it takes every colour byte v of the ImageData
\* to 255 - v, within 0..255, and leaves every alpha byte as it is.
C24_LoopInverts ==
    [][PixelLoop =>
         \A i \in DOMAIN imageData.data:
             /\ imageData'.data[i] \in 0..255
             /\ imageData'.data[i] = (IF i % 4 = 0 THEN imageData.data[i]
                                      ELSE 255 - imageData.data[i])]_vars

\* C24 for an opaque image: converted twice, every colour byte is the original up
\* to what the two encodings may have changed.
C24_RestoredWithinLoss ==
    (imageData.passes = 2 /\ \A i \in DOMAIN imageData.orig: i % 4 = 0 => imageData.orig[i] = 255)
        => \A i \in DOMAIN imageData.data:
               imageData.data[i] - imageData.orig[i] \in (0 - 2 * MaxJpegLoss)..(2 * MaxJpegLoss)

\* The batches that have a conversion request in flight.
InFlight == {b \in DOMAIN batches: batches[b].pc \in {"await", "body"}}

\* C25: at most one per-asset conversion request is in flight at any moment.
C25_OneInFlight == Cardinality(InFlight) <= 1

\* Completion reports of the latest step, and those naming a given destination.
IsCompletion(msg) == \E f \in FolderNames \cup {""}: msg = CompletionAlert(Processed(f))
Completions == {i \in DOMAIN out': IsCompletion(out'[i])}

\* C26: a batch started on a non-empty folder S goes through its assets and, in the
\* step that ends the attempt on the last of them, reports completion exactly
\* once, naming "processed_" + S; no other step reports completion.
C26_CompletionOnce ==
    [][/\ \A b \in DOMAIN batches:
              /\ (BatchReads(b) /\ InFolder(store, batches[b].src) # <<>>) =>
                     /\ batches'[b].pc = "await"
                     /\ batches'[b].images = InFolder(store, batches[b].src)
              /\ Finishes(b) =>
                     /\ Len(batches'[b].results) = Len(batches'[b].images)
                     /\ Cardinality(Completions) = 1
                     /\ CompletionAlert(Processed(batches[b].src)) \in Range(out')
       /\ Completions # {} => \E b \in DOMAIN batches: Finishes(b)
       /\ \A b \in DOMAIN batches: batches[b].pc = "done" => batches'[b].pc = "done"]_vars

\* C26 with the source read as the folder active when the read of the batch is
\* delivered (the destination the batch then keeps).
C26_AtRead ==
    [][/\ \A b \in DOMAIN batches:
              /\ (BatchReads(b) /\ InFolder(store, activeFolder) # <<>>) =>
                     /\ batches'[b].pc = "await"
                     /\ batches'[b].images = InFolder(store, activeFolder)
                     /\ batches'[b].dest = Processed(activeFolder)
              /\ Finishes(b) =>
                     /\ Len(batches'[b].results) = Len(batches'[b].images)
                     /\ Cardinality(Completions) = 1
                     /\ CompletionAlert(batches[b].dest) \in Range(out')
       /\ Completions # {} => \E b \in DOMAIN batches: Finishes(b)
       /\ \A b \in DOMAIN batches: batches[b].pc = "done" => batches'[b].pc = "done"]_vars

\* Batch b has a call of the service in flight; the call returns in this step.
Awaiting(b) == b \in DOMAIN batches /\ batches[b].pc \in {"await", "body"}
Returns(b) ==
    \/ \E outcome \in FetchOutcomes: FetchReturn(b, outcome)
    \/ \E outcome \in BodyOutcomes: BlobReturn(b, outcome)

\* C27, the part about the batch itself: as long as the call in flight of a batch
\* has not returned the batch stays as it is (no timeout, no cancellation), whatever
\* else runs; no step other than the return of a call reports completion, and the
\* return that ends a loop does.
C27_StallsItsBatch ==
    [][/\ \A b \in DOMAIN batches:
              (Awaiting(b) /\ ~Returns(b)) =>
                  /\ batches'[b].pc = batches[b].pc
                  /\ batches'[b].results = batches[b].results
       /\ (\A b \in DOMAIN batches: ~Returns(b)) => Completions = {}
       /\ \A b \in DOMAIN batches: Finishes(b) => Completions # {}]_vars

\* The view changes to FolderContents by a click on a folder list entry; the refresh a
\* typed folder name asked for is delivered.
ListEntryClicked == \E i \in DOMAIN folderList: FolderItemClick(i)
TypedRefresh ==
    txq # <<>> /\ Head(txq) = GetAllTx("retrieve", "scanBtn") /\ txq' = Tail(txq) /\ failures' = failures

\* C28: on entry into FolderContents the assets rendered for the selected folder
\* are the store's assets of that folder at that moment: at the click on a list
\* entry, and, for a typed name, when the listing it asks for is delivered.
C28_RenderedFromStore ==
    [][/\ ListEntryClicked => folderImages' = InFolder(store, activeFolder')
       /\ TypedRefresh => folderImages' = InFolder(store, activeFolder)]_vars

\* C29: the record an upload or a capture writes has the folder that was active
\* when the user picked the file or pressed capture.
C29_FiledWhereIssued ==
    [][/\ \A f \in reads: (ReaderLoad(f) /\ imagesDB # NULL) => NewRecord.folder = IssuedIn(f)
       /\ (CaptureWrites /\ imagesDB # NULL) => NewRecord.folder = Head(issued.encodes)]_vars

\* The loop of batch b has passed its read.
Running(b) == b \in DOMAIN batches /\ batches[b].pc \in {"await", "body", "done"}

\* C30: a batch started on folder S works on the assets of S as its read of the
\* store finds them; the snapshot stays as read whatever is captured, uploaded,
\* selected or deleted meanwhile; each return of the service ends the attempt on
\* the next asset of the snapshot, in order, one at a time; a successful attempt
\* queues its result behind the results queued before it; and writes commit in
\* queue order.
C30_BatchSnapshot ==
    [][\A b \in DOMAIN batches:
         /\ (BatchReads(b) /\ InFolder(store, batches[b].src) # <<>>) =>
                batches'[b].images = InFolder(store, batches[b].src)
         /\ Running(b) =>
                /\ batches'[b].images = batches[b].images
                /\ batches'[b].dest = batches[b].dest
                /\ Len(batches'[b].results) \in {Len(batches[b].results), Len(batches[b].results) + 1}
                /\ Len(batches'[b].results) <= Len(batches[b].images)
                /\ SubSeq(batches'[b].results, 1, Len(batches[b].results)) = batches[b].results
         /\ BatchWrites(b) =>
                /\ Len(batches'[b].results) = Len(batches[b].results) + 1
                /\ Last(batches'[b].results) = "ok"
                /\ NewRecord.name = Processed(batches[b].images[Len(batches'[b].results)].name)
                /\ SubSeq(txq', 1, Len(txq)) = txq
         /\ AddCommits => Last(store') = Stored(Head(txq).rec, keyGen)]_vars

\* C30 with the source read as the folder active when the read is delivered.
C30_AtRead ==
    [][\A b \in DOMAIN batches:
         /\ (BatchReads(b) /\ InFolder(store, activeFolder) # <<>>) =>
                batches'[b].images = InFolder(store, activeFolder)
         /\ Running(b) =>
                /\ batches'[b].images = batches[b].images
                /\ batches'[b].dest = batches[b].dest
                /\ Len(batches'[b].results) \in {Len(batches[b].results), Len(batches[b].results) + 1}
                /\ Len(batches'[b].results) <= Len(batches[b].images)
                /\ SubSeq(batches'[b].results, 1, Len(batches[b].results)) = batches[b].results
         /\ BatchWrites(b) =>
                /\ Len(batches'[b].results) = Len(batches[b].results) + 1
                /\ Last(batches'[b].results) = "ok"
                /\ NewRecord.name = Processed(batches[b].images[Len(batches'[b].results)].name)
                /\ SubSeq(txq', 1, Len(txq)) = txq
         /\ AddCommits => Last(store') = Stored(Head(txq).rec, keyGen)]_vars

\* Writes of batch b that a queue still holds uncommitted.
PendingWrites(q, b) == {i \in DOMAIN q: q[i].op = "add" /\ q[i].by = b}

\* C31: in the step in which batch b reports overall completion, none of its
\* writes is still waiting to commit, and the destination folder in the store
\* holds a record for every asset the batch converted.
C31_ReportedAfterCommit ==
    [][\A b \in DOMAIN batches:
         (Finishes(b) /\ imagesDB # NULL) =>
             /\ PendingWrites(txq', b) = {}
             /\ Len(InFolder(store', batches'[b].dest))
                    >= Cardinality({i \in DOMAIN batches'[b].results: batches'[b].results[i] = "ok"})]_vars
====
